---- MODULE Spec2Model ----
(***************************************************************************)
(* Model of the three Playwright verification scripts under                *)
(* jules-scratch/verification: verify_modal_visible.py,                    *)
(* verify_location_dashboard_granted.py and verify_location_flow.py.       *)
(* Each script is a straight-line run(playwright) executed inside          *)
(* `with sync_playwright() as playwright:`.  Every call either returns or   *)
(* raises; the calls that wait on the application under test may poll      *)
(* first.  A raised exception leaves run() at once (the scripts have no    *)
(* try/except/finally).                                                    *)
(***************************************************************************)
EXTENDS Integers, Sequences, FiniteSets, TLC

\* number of polling rounds a bounded wait makes before its deadline expires
MaxPolls == 2

Scripts == {"modal", "dashboard", "flow"}

DeniedPng == "jules-scratch/verification/permission_denied.png"
DashboardPng == "jules-scratch/verification/location_dashboard.png"
Origin == "http://localhost:5173"

\* one statement of run(): source line, operation, scenario it belongs to
\* (0 = the run itself), string argument, permission list
S(line, op, scen, arg, perms) ==
    [line |-> line, op |-> op, scen |-> scen, arg |-> arg, perms |-> perms]

(************************ verify_modal_visible.py **************************)
ModalSetup ==
    << S(4, "launch", 1, "", {}),
       S(5, "new_context", 1, "", {}),
       S(6, "new_page", 1, "", {}) >>

ModalCapture ==
    << S(8, "goto", 1, Origin, {}),
       S(9, "expect_visible", 1, "Location Access Required", {}),
       S(10, "screenshot", 1, DeniedPng, {}) >>

ModalTeardown ==
    << S(12, "browser_close", 1, "", {}) >>

ModalProg == ModalSetup \o ModalCapture \o ModalTeardown

(****************** verify_location_dashboard_granted.py *******************)
DashSetupReordered ==
    << S(4, "launch", 1, "", {}),
       S(5, "new_context", 1, "", {}),
       S(8, "new_page", 1, "", {}),
       S(6, "grant_permissions", 1, Origin, {"geolocation"}),
       S(7, "set_geolocation", 1, "20.5937,78.9629", {}) >>

DashSetup ==
    << S(4, "launch", 1, "", {}),
       S(5, "new_context", 1, "", {}),
       S(6, "grant_permissions", 1, Origin, {"geolocation"}),
       S(7, "set_geolocation", 1, "20.5937,78.9629", {}),
       S(8, "new_page", 1, "", {}) >>

DashLoginSwapped ==
    << S(10, "goto", 1, Origin, {}),
       S(12, "fill", 1, "password", {}),
       S(11, "select_option", 1, "Admin", {}),
       S(14, "expect_enabled", 1, "Login", {}),
       S(15, "click", 1, "Login", {}) >>

DashLogin ==
    << S(10, "goto", 1, Origin, {}),
       S(11, "select_option", 1, "Admin", {}),
       S(12, "fill", 1, "password", {}),
       S(14, "expect_enabled", 1, "Login", {}),
       S(15, "click", 1, "Login", {}) >>

\* line 18 clicks the button named "(pin emoji) Locations"
DashNav ==
    << S(17, "click", 1, "Management", {}),
       S(18, "click", 1, "Locations", {}) >>

DashCaptureEarly ==
    << S(21, "screenshot", 1, DashboardPng, {}),
       S(20, "wait_for_selector", 1, ".leaflet-container", {}) >>

DashCapture ==
    << S(20, "wait_for_selector", 1, ".leaflet-container", {}),
       S(21, "screenshot", 1, DashboardPng, {}) >>

DashTeardown ==
    << S(23, "browser_close", 1, "", {}) >>

DashboardProg == DashSetup \o DashLogin \o DashNav \o DashCapture \o DashTeardown

(************************ verify_location_flow.py **************************)
FlowDeniedSetup ==
    << S(5, "launch", 1, "", {}),
       S(6, "new_context", 1, "", {}),
       S(7, "grant_permissions", 1, Origin, {}),
       S(8, "new_page", 1, "", {}) >>

FlowDeniedLogin ==
    << S(10, "goto", 1, Origin, {}),
       S(11, "select_option", 1, "Admin", {}),
       S(12, "fill", 1, "password", {}),
       S(13, "click", 1, "Login", {}) >>

FlowDeniedCapture ==
    << S(15, "expect_visible", 1, "Location Access Required", {}),
       S(16, "screenshot", 1, DeniedPng, {}) >>

FlowDeniedTeardownMissing == << >>

FlowDeniedTeardown ==
    << S(17, "context_close", 1, "", {}) >>

FlowGrantedSetup ==
    << S(20, "new_context", 2, "", {}),
       S(21, "grant_permissions", 2, Origin, {"geolocation"}),
       S(22, "set_geolocation", 2, "20.5937,78.9629", {}),
       S(23, "new_page", 2, "", {}) >>

FlowGrantedLogin ==
    << S(25, "goto", 2, Origin, {}),
       S(26, "select_option", 2, "Admin", {}),
       S(27, "fill", 2, "password", {}),
       S(29, "expect_enabled", 2, "Login", {}),
       S(30, "click", 2, "Login", {}) >>

\* line 33 clicks the button named "(pin emoji) Locations"
FlowGrantedNav ==
    << S(32, "click", 2, "Management", {}),
       S(33, "click", 2, "Locations", {}) >>

FlowGrantedCaptureTwice ==
    << S(35, "wait_for_selector", 2, ".leaflet-container", {}),
       S(36, "screenshot", 2, DashboardPng, {}),
       S(36, "screenshot", 2, "jules-scratch/verification/extra.png", {}) >>

FlowGrantedCapture ==
    << S(35, "wait_for_selector", 2, ".leaflet-container", {}),
       S(36, "screenshot", 2, DashboardPng, {}) >>

FlowGrantedTeardown ==
    << S(37, "context_close", 2, "", {}) >>

FlowTeardown ==
    << S(39, "browser_close", 0, "", {}) >>

FlowProg ==
    FlowDeniedSetup \o FlowDeniedLogin \o FlowDeniedCapture \o FlowDeniedTeardown
    \o FlowGrantedSetup \o FlowGrantedLogin \o FlowGrantedNav
    \o FlowGrantedCapture \o FlowGrantedTeardown \o FlowTeardown

Prog(sc) ==
    CASE sc = "modal" -> ModalProg
      [] sc = "dashboard" -> DashboardProg
      [] sc = "flow" -> FlowProg

\* scenarios a script runs
NumScen(sc) == IF sc = "flow" THEN 2 ELSE 1

Scen == 1..2

\* statements that wait on the application under test (navigation,
\* actionability, expect, selector) before they return
WaitingOps ==
    {"goto", "select_option", "fill", "expect_enabled", "expect_visible",
     "click", "wait_for_selector", "screenshot"}

VARIABLES
    script,      \* the entry point being executed
    pc,          \* index in Prog(script) of the statement to execute next
    polls,       \* polling rounds spent in the current wait
    exc,         \* exception propagating out of run(): "none" or its kind
    playwright,  \* the sync_playwright() context manager: "init"/"started"/"stopped"
    exitCode,    \* -1 while the process lives, then 0 or 1
    browser,     \* [state, launches, closes] of the browser handle
    ctx,         \* per scenario: the BrowserContext (the session)
    page,        \* per scenario: "none", "blank", "loaded" or "closed"
    files,       \* sequence of screenshot writes [path, scen]
    status,      \* per scenario: NotStarted/Running/Completed/Failed
    trace        \* history of executed statements, [scen, op, arg, line, ok]

vars == <<script, pc, polls, exc, playwright, exitCode, browser, ctx, page,
          files, status, trace>>

NoCtx == [state |-> "none", browser |-> 0, granted |-> FALSE,
          perms |-> {}, geo |-> FALSE, closes |-> 0]

Init ==
    /\ script \in Scripts
    /\ pc = 1
    /\ polls = 0
    /\ exc = "none"
    /\ playwright = "init"
    /\ exitCode = -1
    /\ browser = [state |-> "none", launches |-> 0, closes |-> 0]
    /\ ctx = [s \in Scen |-> NoCtx]
    /\ page = [s \in Scen |-> "none"]
    /\ files = << >>
    /\ status = [s \in Scen |-> "NotStarted"]
    /\ trace = << >>

InRun == pc <= Len(Prog(script))

Cur == Prog(script)[pc]

CanRunIgnoringExc == playwright = "started" /\ InRun

\* a statement of run() executes only while no exception is propagating
CanRun == playwright = "started" /\ exc = "none" /\ InRun

AtOp(o) == CanRun /\ Cur.op = o

\* last statement of scenario s in the program
LastOf(s) ==
    CHOOSE i \in 1..Len(Prog(script)) :
        /\ Prog(script)[i].scen = s
        /\ \A j \in (i+1)..Len(Prog(script)) : Prog(script)[j].scen # s

NextPc(p) == p + 1

NextPollWrap(p) == (p + 1) % MaxPolls

NextPoll(p) == p + 1

Entry(ok) ==
    [scen |-> Cur.scen, op |-> Cur.op, arg |-> Cur.arg, line |-> Cur.line, ok |-> ok]

\* scenario whose first statement is at index p (0 when there is none)
StartsAt(p) ==
    IF /\ p <= Len(Prog(script))
       /\ Prog(script)[p].scen # 0
       /\ \A j \in 1..(p - 1) : Prog(script)[j].scen # Prog(script)[p].scen
    THEN Prog(script)[p].scen
    ELSE 0

\* the scenario of the statement that returned is complete after its last
\* statement; control then stands at the next statement, which may be the
\* first one of the next scenario
StatusAfterOk ==
    [s \in Scen |->
        IF s = Cur.scen /\ pc = LastOf(s) THEN "Completed"
        ELSE IF s = StartsAt(NextPc(pc)) THEN "Running"
        ELSE status[s]]

\* the current statement returns normally and control moves to the next one
Complete ==
    /\ pc' = NextPc(pc)
    /\ polls' = 0
    /\ trace' = Append(trace, Entry(TRUE))
    /\ status' = StatusAfterOk
    /\ UNCHANGED <<script, exc, playwright, exitCode>>


\* contexts of the browser that are still open are closed with it
CloseAllCtx ==
    [s \in Scen |->
        IF ctx[s].state = "open"
        THEN [ctx[s] EXCEPT !.state = "closed", !.closes = @ + 1]
        ELSE ctx[s]]

ClosePages(closing) ==
    [s \in Scen |-> IF s \in closing /\ page[s] # "none" THEN "closed" ELSE page[s]]

\* `with sync_playwright() as playwright:` starts the driver and calls
\* run(playwright): control stands at the first statement of run()
PlaywrightEnter ==
    /\ playwright = "init"
    /\ playwright' = "started"
    /\ status' = [s \in Scen |-> IF s = StartsAt(1) THEN "Running" ELSE status[s]]
    /\ UNCHANGED <<script, pc, polls, exc, exitCode, browser, ctx, page, files, trace>>

\* sync_playwright().__enter__ raises (driver cannot be started): run() is
\* never called
PlaywrightEnterFails ==
    /\ playwright = "init"
    /\ playwright' = "stopped"
    /\ exc' = "Error"
    /\ UNCHANGED <<script, pc, polls, exitCode, browser, ctx, page, files, status, trace>>

\* browser = playwright.chromium.launch(headless=True)
Launch ==
    /\ AtOp("launch")
    /\ browser' = [browser EXCEPT !.state = "open", !.launches = @ + 1]
    /\ Complete
    /\ UNCHANGED <<ctx, page, files>>

\* context = browser.new_context()
NewContext ==
    /\ AtOp("new_context")
    /\ ctx' = [ctx EXCEPT ![Cur.scen] =
                  [NoCtx EXCEPT !.state = "open", !.browser = browser.launches]]
    /\ Complete
    /\ UNCHANGED <<browser, page, files>>

\* context.grant_permissions([...], origin="http://localhost:5173")
GrantPermissions ==
    /\ AtOp("grant_permissions")
    /\ ctx' = [ctx EXCEPT ![Cur.scen].granted = TRUE, ![Cur.scen].perms = Cur.perms]
    /\ Complete
    /\ UNCHANGED <<browser, page, files>>

\* context.set_geolocation({'latitude': 20.5937, 'longitude': 78.9629})
SetGeolocation ==
    /\ AtOp("set_geolocation")
    /\ ctx' = [ctx EXCEPT ![Cur.scen].geo = TRUE]
    /\ Complete
    /\ UNCHANGED <<browser, page, files>>

\* page = context.new_page()
NewPage ==
    /\ AtOp("new_page")
    /\ page' = [page EXCEPT ![Cur.scen] = "blank"]
    /\ Complete
    /\ UNCHANGED <<browser, ctx, files>>

\* page.goto("http://localhost:5173") returns: the document is loaded
Goto ==
    /\ AtOp("goto")
    /\ page' = [page EXCEPT ![Cur.scen] = "loaded"]
    /\ Complete
    /\ UNCHANGED <<browser, ctx, files>>

\* page.get_by_role("combobox").select_option(label="Admin") returns
SelectOption ==
    /\ AtOp("select_option")
    /\ Complete
    /\ UNCHANGED <<browser, ctx, page, files>>

\* page.get_by_placeholder("Password").fill("password") returns
Fill ==
    /\ AtOp("fill")
    /\ Complete
    /\ UNCHANGED <<browser, ctx, page, files>>

\* expect(login_button).to_be_enabled() returns
ExpectEnabled ==
    /\ AtOp("expect_enabled")
    /\ Complete
    /\ UNCHANGED <<browser, ctx, page, files>>

\* expect(page.get_by_text("Location Access Required")).to_be_visible() returns
ExpectVisible ==
    /\ AtOp("expect_visible")
    /\ Complete
    /\ UNCHANGED <<browser, ctx, page, files>>

\* page.get_by_role("button", name=...).click() returns
Click ==
    /\ AtOp("click")
    /\ Complete
    /\ UNCHANGED <<browser, ctx, page, files>>

\* page.wait_for_selector(".leaflet-container") returns
WaitForSelector ==
    /\ AtOp("wait_for_selector")
    /\ Complete
    /\ UNCHANGED <<browser, ctx, page, files>>

\* page.screenshot(path=...) writes the image file
Screenshot ==
    /\ AtOp("screenshot")
    /\ files' = Append(files, [path |-> Cur.arg, scen |-> Cur.scen])
    /\ Complete
    /\ UNCHANGED <<browser, ctx, page>>

\* context_denied.close() / context_granted.close()
ContextClose ==
    /\ AtOp("context_close")
    /\ ctx' = [ctx EXCEPT ![Cur.scen].state = "closed", ![Cur.scen].closes = @ + 1]
    /\ page' = ClosePages({Cur.scen})
    /\ Complete
    /\ UNCHANGED <<browser, files>>

\* browser.close()
BrowserClose ==
    /\ AtOp("browser_close")
    /\ browser' = [browser EXCEPT !.state = "closed", !.closes = @ + 1]
    /\ ctx' = CloseAllCtx
    /\ page' = ClosePages({s \in Scen : ctx[s].state = "open"})
    /\ Complete
    /\ UNCHANGED files

\* the awaited condition does not hold yet: the wait polls once more
Poll ==
    /\ CanRun
    /\ Cur.op \in WaitingOps
    /\ polls < MaxPolls
    /\ polls' = NextPoll(polls)
    /\ UNCHANGED <<script, pc, exc, playwright, exitCode, browser, ctx, page,
                   files, status, trace>>

\* kind of the exception the current statement raises: a wait whose deadline
\* expired gives TimeoutError (AssertionError from expect), anything else a
\* plain library error (launch failure, invalid permission, navigation error,
\* strict-mode violation, closed target, I/O error)
ExcKind ==
    IF Cur.op \in WaitingOps /\ polls = MaxPolls
    THEN IF Cur.op \in {"expect_enabled", "expect_visible"}
         THEN "AssertionError" ELSE "TimeoutError"
    ELSE "Error"

\* the current statement raises; nothing in run() catches it, so control
\* leaves run() with the statement's effect not applied
Raise ==
    /\ playwright = "started"
    /\ exc = "none"
    /\ InRun
    /\ exc' = ExcKind
    /\ trace' = Append(trace, Entry(FALSE))
    /\ status' = IF Cur.scen = 0 THEN status
                 ELSE [status EXCEPT ![Cur.scen] = "Failed"]
    /\ UNCHANGED <<script, pc, polls, playwright, exitCode, browser, ctx, page, files>>

\* leaving the `with sync_playwright()` block, after run() returned or raised:
\* the driver is stopped; handles never closed by the script are cut off
PlaywrightExit ==
    /\ playwright = "started"
    /\ exc # "none" \/ ~InRun
    /\ playwright' = "stopped"
    /\ browser' = IF browser.state = "open"
                  THEN [browser EXCEPT !.state = "disconnected"] ELSE browser
    /\ ctx' = [s \in Scen |->
                 IF ctx[s].state = "open"
                 THEN [ctx[s] EXCEPT !.state = "disconnected"] ELSE ctx[s]]
    /\ UNCHANGED <<script, pc, polls, exc, exitCode, page, files, status, trace>>

\* the interpreter exits: 0, or 1 with the traceback of the unhandled exception
ProcessExit ==
    /\ playwright = "stopped"
    /\ exitCode = -1
    /\ exitCode' = IF exc = "none" THEN 0 ELSE 1
    /\ UNCHANGED <<script, pc, polls, exc, playwright, browser, ctx, page,
                   files, status, trace>>

Next ==
    \/ PlaywrightEnter
    \/ PlaywrightEnterFails
    \/ Launch
    \/ NewContext
    \/ GrantPermissions
    \/ SetGeolocation
    \/ NewPage
    \/ Goto
    \/ SelectOption
    \/ Fill
    \/ ExpectEnabled
    \/ ExpectVisible
    \/ Click
    \/ WaitForSelector
    \/ Screenshot
    \/ ContextClose
    \/ BrowserClose
    \/ Poll
    \/ Raise
    \/ PlaywrightExit
    \/ ProcessExit

Spec == Init /\ [][Next]_vars

\* the interpreter keeps executing the script until the process exits
FairSpec == Spec /\ WF_vars(Next)

TypeOK ==
    /\ script \in Scripts
    /\ pc \in 1..(Len(Prog(script)) + 1)
    /\ polls \in 0..MaxPolls
    /\ exc \in {"none", "Error", "TimeoutError", "AssertionError"}
    /\ playwright \in {"init", "started", "stopped"}
    /\ exitCode \in {-1, 0, 1}
    /\ browser.state \in {"none", "open", "closed", "disconnected"}
    /\ \A s \in Scen : ctx[s].state \in {"none", "open", "closed", "disconnected"}
    /\ \A s \in Scen : page[s] \in {"none", "blank", "loaded", "closed"}
    /\ \A s \in Scen : status[s] \in {"NotStarted", "Running", "Completed", "Failed"}


(***************************************************************************)
(* Helpers for the properties                                              *)
(***************************************************************************)
PrefixOf(a, b) == Len(a) <= Len(b) /\ a = SubSeq(b, 1, Len(a))

Step(e) == <<e.op, e.arg>>

\* the page-driving statements of scenario s that returned normally, in order
OkSteps(s) ==
    LET sel == SelectSeq(trace, LAMBDA e : e.scen = s /\ e.ok /\ e.op \in WaitingOps)
    IN [i \in 1..Len(sel) |-> Step(sel[i])]

WritesOf(s) == SelectSeq(files, LAMBDA f : f.scen = s)

Exited == exitCode # -1

GrantedSteps ==
    << <<"goto", "http://localhost:5173">>,
       <<"select_option", "Admin">>,
       <<"fill", "password">>,
       <<"expect_enabled", "Login">>,
       <<"click", "Login">>,
       <<"click", "Management">>,
       <<"click", "Locations">>,
       <<"wait_for_selector", ".leaflet-container">>,
       <<"screenshot", "jules-scratch/verification/location_dashboard.png">> >>

DeniedFlowSteps ==
    << <<"goto", "http://localhost:5173">>,
       <<"select_option", "Admin">>,
       <<"fill", "password">>,
       <<"click", "Login">>,
       <<"expect_visible", "Location Access Required">>,
       <<"screenshot", "jules-scratch/verification/permission_denied.png">> >>

ModalSteps ==
    << <<"goto", "http://localhost:5173">>,
       <<"expect_visible", "Location Access Required">>,
       <<"screenshot", "jules-scratch/verification/permission_denied.png">> >>

ListedSteps(sc, s) ==
    CASE sc = "modal" -> ModalSteps
      [] sc = "dashboard" -> GrantedSteps
      [] sc = "flow" /\ s = 1 -> DeniedFlowSteps
      [] sc = "flow" /\ s = 2 -> GrantedSteps

FixedPath(sc, s) ==
    IF sc = "dashboard" \/ (sc = "flow" /\ s = 2)
    THEN "jules-scratch/verification/location_dashboard.png"
    ELSE "jules-scratch/verification/permission_denied.png"

(***************************************************************************)
(* C1: when the process has exited, every browser and every session that   *)
(* was opened has been closed exactly once, on the success path and on     *)
(* every failure path.                                                     *)
(***************************************************************************)
C1_ClosedExactlyOnce ==
    Exited =>
        /\ browser.launches > 0 => browser.state = "closed" /\ browser.closes = 1
        /\ \A s \in Scen :
              ctx[s].state # "none" => ctx[s].state = "closed" /\ ctx[s].closes = 1

(***************************************************************************)
(* C2: within a scenario the steps that have completed are always an       *)
(* initial part of the scenario's listed steps, in the listed order, with  *)
(* none skipped or repeated; a step starts only after all earlier ones     *)
(* returned normally, so a failed step can only be the last one executed.  *)
(***************************************************************************)
C2_StepsInOrder ==
    /\ \A s \in 1..NumScen(script) : PrefixOf(OkSteps(s), ListedSteps(script, s))
    /\ \A i \in 1..Len(trace) : i < Len(trace) => trace[i].ok
    /\ \A i, j \in 1..Len(trace) : i < j => trace[i].line < trace[j].line

C2_Witness ==
    /\ script = "dashboard"
    /\ status[1] = "Completed"
    /\ OkSteps(1) = GrantedSteps

(***************************************************************************)
(* C3 as stated: in every scenario, once the page exists the session has   *)
(* had grant_permissions applied to it.                                    *)
(***************************************************************************)
C3_GrantBeforePageEverywhere ==
    \A s \in Scen : page[s] # "none" => ctx[s].granted

(***************************************************************************)
(* C3 amended: in the scenarios that configure permissions (dashboard and  *)
(* both scenarios of flow) grant_permissions, and set_geolocation in the   *)
(* granted ones, have been applied by the time the page is created, hence  *)
(* before the navigation; verify_modal_visible never applies either and    *)
(* loads its page under the default configuration.                         *)
(***************************************************************************)
C3_ConfigBeforePage ==
    \A s \in Scen :
        /\ script = "modal" => ~ctx[s].granted /\ ~ctx[s].geo
        /\ (script # "modal" /\ page[s] # "none") =>
              /\ ctx[s].granted
              /\ IF script = "flow" /\ s = 1
                 THEN ctx[s].perms = {} /\ ~ctx[s].geo
                 ELSE ctx[s].perms = {"geolocation"} /\ ctx[s].geo

C3_Witness ==
    /\ script = "flow"
    /\ page[1] = "closed"
    /\ page[2] = "loaded"
    /\ ctx[2].geo

(***************************************************************************)
(* C4: every click on the Login control is preceded, in the same scenario, *)
(* by a completed role selection, a completed password fill and a          *)
(* successful expect(...).to_be_enabled() on that control.                 *)
(***************************************************************************)
C4_EnabledCheckBeforeLoginClick ==
    \A i \in 1..Len(trace) :
        (trace[i].op = "click" /\ trace[i].arg = "Login") =>
            \A o \in {"select_option", "fill", "expect_enabled"} :
                \E j \in 1..(i - 1) :
                    /\ trace[j].scen = trace[i].scen
                    /\ trace[j].op = o
                    /\ trace[j].ok

(***************************************************************************)
(* C5: in a session whose permission grants are empty, no select, fill or  *)
(* click completes before the "Location Access Required" indicator has     *)
(* been seen visible in that session.                                      *)
(***************************************************************************)
C5_IndicatorBeforeInteraction ==
    \A i \in 1..Len(trace) :
        LET e == trace[i] IN
        (/\ e.ok
         /\ e.op \in {"select_option", "fill", "click"}
         /\ ctx[e.scen].perms = {}) =>
            \E j \in 1..(i - 1) :
                /\ trace[j].scen = e.scen
                /\ trace[j].op = "expect_visible"
                /\ trace[j].ok

(***************************************************************************)
(* C6 as stated: a run of an entry point never writes two screenshot       *)
(* files, and a successful run has written exactly one.                    *)
(***************************************************************************)
C6_OneFilePerRun ==
    /\ Len(files) <= 1
    /\ exitCode = 0 => Len(files) = 1

(***************************************************************************)
(* C6 amended: each scenario writes at most one image file, always to its  *)
(* own fixed path, and exactly one once it has completed; a successful run *)
(* of an entry point has written one file per scenario it contains (two    *)
(* for verify_location_flow), and nothing is written anywhere else.        *)
(***************************************************************************)
C6_OneFilePerScenario ==
    /\ \A s \in Scen :
          /\ Len(WritesOf(s)) <= 1
          /\ status[s] = "Completed" => Len(WritesOf(s)) = 1
    /\ \A i \in 1..Len(files) :
          /\ files[i].scen \in 1..NumScen(script)
          /\ files[i].path = FixedPath(script, files[i].scen)
    /\ exitCode = 0 => Len(files) = NumScen(script)

C6_Witness ==
    /\ script = "flow"
    /\ exitCode = 0
    /\ Len(files) = 2

(***************************************************************************)
(* C7: a scenario's state only moves NotStarted -> Running -> Completed or *)
(* Failed; Completed and Failed are never left; while some scenario is     *)
(* Failed, or an exception is propagating, no statement is attempted any   *)
(* more; no statement is executed twice.                                   *)
(***************************************************************************)
C7_ForwardOnly ==
    [][ /\ \A s \in Scen :
              status'[s] # status[s] =>
                  <<status[s], status'[s]>> \in
                      { <<"NotStarted", "Running">>,
                        <<"Running", "Completed">>,
                        <<"Running", "Failed">> }
        /\ ((\E s \in Scen : status[s] = "Failed") \/ exc # "none") =>
              trace' = trace /\ pc' = pc
        /\ \A i, j \in 1..Len(trace') : i # j => trace'[i].line # trace'[j].line
      ]_vars

C7_Witness ==
    /\ script = "flow"
    /\ status[1] = "Completed"
    /\ status[2] = "Failed"
    /\ exitCode = 1

(***************************************************************************)
(* C8 as stated: the two scenarios of a run share nothing, not even the    *)
(* browser handle their sessions are created from.                         *)
(***************************************************************************)
C8_NoSharedBrowser ==
    (ctx[1].state # "none" /\ ctx[2].state # "none") =>
        ctx[1].browser # ctx[2].browser

(***************************************************************************)
(* C8 amended: each scenario has its own session and page; at most one     *)
(* session is open at any time; the second session exists only after the   *)
(* first was closed (once); every statement of the first scenario precedes *)
(* every statement of the second; the two write to different paths.  Both  *)
(* sessions are contexts of the one browser launched at line 5.            *)
(***************************************************************************)
C8_SessionsDisjoint ==
    /\ Cardinality({s \in Scen : ctx[s].state = "open"}) <= 1
    /\ ctx[2].state # "none" =>
          /\ ctx[1].state = "closed"
          /\ ctx[1].closes = 1
          /\ page[1] = "closed"
          /\ ctx[2].browser = ctx[1].browser
    /\ browser.launches <= 1
    /\ \A i, j \in 1..Len(trace) :
          (trace[i].scen = 2 /\ trace[j].scen = 1) => j < i
    /\ \A i, j \in 1..Len(files) :
          files[i].scen # files[j].scen => files[i].path # files[j].path

C8_Witness ==
    /\ script = "flow"
    /\ ctx[2].state = "open"
    /\ page[2] = "loaded"
    /\ Len(files) = 1

(***************************************************************************)
(* C9: a scenario that is Running eventually becomes Completed or Failed.  *)
(***************************************************************************)
C9_Terminates ==
    \A s \in Scen :
        (status[s] = "Running") ~> (status[s] \in {"Completed", "Failed"})

C9_Witness ==
    /\ exc = "TimeoutError"
    /\ polls = MaxPolls
    /\ \E s \in Scen : status[s] = "Failed"

(***************************************************************************)
(* C10: every screenshot that was written was taken after the scenario's   *)
(* expected condition had been observed in the same session: the map       *)
(* container selector for location_dashboard.png, the "Location Access     *)
(* Required" text for permission_denied.png.                               *)
(***************************************************************************)
C10_ScreenshotAfterCondition ==
    /\ Len(files) =
          Len(SelectSeq(trace, LAMBDA e : e.op = "screenshot" /\ e.ok))
    /\ \A i \in 1..Len(trace) :
          (trace[i].op = "screenshot" /\ trace[i].ok) =>
              \E j \in 1..(i - 1) :
                  /\ trace[j].scen = trace[i].scen
                  /\ trace[j].ok
                  /\ IF trace[i].arg = "jules-scratch/verification/location_dashboard.png"
                     THEN Step(trace[j]) = <<"wait_for_selector", ".leaflet-container">>
                     ELSE Step(trace[j]) = <<"expect_visible", "Location Access Required">>

C10_Witness ==
    /\ script = "modal"
    /\ Len(files) = 1
    /\ exitCode = 0

====
